---- MODULE Spec2Model ----
(***************************************************************************)
(* RecruitAI Pro (src/app.py): a Streamlit script that is re-run from top  *)
(* to bottom after every user interaction.  st.session_state (jd,          *)
(* candidates, email) and the widget values survive between runs; what is  *)
(* drawn on the page (notices, table, email draft) is rebuilt by each run. *)
(* A run is modelled section by section with a program counter:            *)
(*   "jd" (lines 67-73), "resumes" (76-81), "loop" (83-100),               *)
(*   "dashboard" (103-140), "export" (143-163), and "idle" between runs.   *)
(* An exception that no try block of the script catches ends the run; its  *)
(* kind is kept in exc.  The API key of lines 11-16 is taken to be set;    *)
(* without it every run stops at line 13.                                  *)
(***************************************************************************)
EXTENDS Integers, Sequences, FiniteSets, TLC

VARIABLES
    jd,          \* st.session_state.jd ("none" while the key is absent)
    jd_file,     \* value of the JD uploader widget ("none" or a file)
    resumes,     \* files of the upload the run analyses (<<>>: it analyses none)
    clicked,     \* the button whose click started the current run
    candidates,  \* st.session_state.candidates (<<>> also while the key is absent)
    email,       \* st.session_state.email (NoEmail while the key is absent)
    selected,    \* name chosen in the "View Candidate Details" selectbox
    pc,          \* section of the script being executed
    i,           \* resumes of the batch handled so far by the for loop
    reply,       \* response.text of the scoring call of the loop's iteration
    notices,     \* st.error / st.warning / st.success boxes drawn by the run
    view,        \* row order of the table drawn by st.dataframe (indices)
    shown,       \* email draft text area and download button drawn by the run
    page,        \* widgets the latest run drew, i.e. what the user can act on
    promptJd,    \* job description put into the latest prompt sent to the model
    exc          \* uncaught exception that ended the run ("none": no exception)

vars == <<jd, jd_file, resumes, clicked, candidates, email, selected, pc, i,
          reply, notices, view, shown, page, promptJd, exc>>

-----------------------------------------------------------------------------
(* Bounds of the model *)

\* largest number of files of one resume upload
MaxResumes == 2

\* uploaded job-description documents, named by the text they contain
JdFiles == {"jdA", "jdB"}

\* uploaded resume files
ResumeFiles == {"A.pdf", "B.docx"}

-----------------------------------------------------------------------------
(* Values found in a model reply.  t is the Python type, v tells values of  *)
(* one type apart (a number's value, a string's id, a list's length).       *)

Num(n)   == [t |-> "num",  v |-> n]
Str(k)   == [t |-> "str",  v |-> k]
List(n)  == [t |-> "list", v |-> n]
Absent   == [t |-> "absent", v |-> 0]

(* A reply text, by its syntax:                                            *)
(*   fence : wrapped in ```json ... ``` markers                            *)
(*   syn   : "json"  strictly valid JSON whose literals Python also reads  *)
(*           "jsonlit" strictly valid JSON using true / false / null       *)
(*           "py"    a Python literal that is not JSON (single quotes)     *)
(*           "call"  a Python call expression, e.g. dict(score=90, ...)    *)
(*           "junk"  prose, neither JSON nor a Python expression           *)
(*   top   : type of the top-level value ("obj", "arr", "num", "str",      *)
(*           "bool", or "none" for junk)                                   *)
(*   score, matches, gaps, summary : the object's members (Absent if not   *)
(*           given or if the value is no object)                           *)
Obj(f, s, sc, m, g, su) ==
    [fence |-> f, syn |-> s, top |-> "obj",
     score |-> sc, matches |-> m, gaps |-> g, summary |-> su]

Scalar(s, tp) ==
    [fence |-> FALSE, syn |-> s, top |-> tp,
     score |-> Absent, matches |-> Absent, gaps |-> Absent, summary |-> Absent]

Good        == Obj(FALSE, "json", Num(90), List(3), List(3), List(3))
High        == Obj(FALSE, "json", Num(150), List(3), List(3), List(3))
Low         == Obj(FALSE, "json", Num(0 - 5), List(3), List(3), List(3))
StrScore    == Obj(FALSE, "json", Str(1), List(3), List(3), List(3))
Sparse      == Obj(FALSE, "json", Absent, List(3), Absent, Absent)
BadMatches  == Obj(FALSE, "json", Num(90), Num(7), List(3), List(3))
EmptyObj    == Obj(FALSE, "json", Absent, Absent, Absent, Absent)
FencedGood  == Obj(TRUE,  "json", Num(90), List(3), List(3), List(3))
FencedJunk  == [Scalar("junk", "none") EXCEPT !.fence = TRUE]
PyDict      == Obj(FALSE, "py",   Num(90), List(3), List(3), List(3))
PyCall      == Obj(FALSE, "call", Num(90), List(3), List(3), List(3))
JsonArray   == Scalar("json", "arr")
JsonNumber  == Scalar("json", "num")
JsonString  == Scalar("json", "str")
JsonTrue    == Scalar("jsonlit", "bool")
Prose       == Scalar("junk", "none")

Replies == {Good, High, Low, StrScore, Sparse, BadMatches, EmptyObj,
            FencedGood, FencedJunk, PyDict, PyCall,
            JsonArray, JsonNumber, JsonString, JsonTrue, Prose}

\* generate_content raising instead of returning (network, auth, rate limit)
ServiceError == [Scalar("none", "none") EXCEPT !.syn = "ServiceError"]

\* no scoring call made yet in this run
NoReply == [Scalar("none", "none") EXCEPT !.syn = "none"]

-----------------------------------------------------------------------------
(* Python values the script computes from a reply *)

\* None, as analyze_resume returns it after an exception
PyNone ==
    [top |-> "none", score |-> Absent, matches |-> Absent,
     gaps |-> Absent, summary |-> Absent]

\* the Python object a reply text denotes
Value(r) ==
    [top |-> r.top, score |-> r.score, matches |-> r.matches,
     gaps |-> r.gaps, summary |-> r.summary]

\* eval(response.text): the exception it raises, "none" if it returns.
\* A fence marker or prose is no Python expression; true / false / null are
\* undefined names; every other text is evaluated, calls included.
EvalError(r) ==
    IF r.fence \/ r.syn = "junk" THEN "SyntaxError"
    ELSE IF r.syn = "jsonlit" THEN "NameError"
    ELSE "none"

\* analyze_resume: error is the exception caught by its try block (reported
\* with st.error), result is the value returned.
analyze_resume(resp) ==
    IF resp = ServiceError
    THEN [error |-> "ServiceError", result |-> PyNone]
    ELSE IF EvalError(resp) # "none"
    THEN [error |-> EvalError(resp), result |-> PyNone]
    ELSE [error |-> "none", result |-> Value(resp)]

\* bool(analysis): None, {} and the empty / zero values are false.  The
\* scalars and arrays of Replies are non-empty and non-zero.
Truthy(a) ==
    /\ a.top # "none"
    /\ a.top = "obj" =>
         \E f \in {"score", "matches", "gaps", "summary"} : a[f] # Absent

\* `if analysis:`, the test without isinstance
TruthyOnly(a) == Truthy(a)

\* `analysis and isinstance(analysis, dict)`
IsValidAnalysis(a) == Truthy(a) /\ a.top = "obj"

\* dict.get(key, default)
Get(val, default) == IF val = Absent THEN default ELSE val

\* resume.name.split('.')[0]
Stem(file) ==
    CASE file = "A.pdf"  -> "A"
      [] file = "B.docx" -> "B"

\* candidate_data; resume holds the file whose text is excerpted
candidate_data(file, a) ==
    [name    |-> Stem(file),
     score   |-> Get(a.score, Num(0)),
     matches |-> Get(a.matches, List(0)),
     gaps    |-> Get(a.gaps, List(0)),
     summary |-> Get(a.summary, Str(0)),
     resume  |-> file]

\* ", ".join(x) needs an iterable of strings: a list of strings or a string
JoinOk(x) == x.t \in {"list", "str"}

NoEmail == [name |-> "", jd |-> "none"]

\* generate_email: the text the model returns for the prompt, told apart by
\* the candidate and the job description the prompt was written for
generate_email(candidate, j) == [name |-> candidate.name, jd |-> j]

NoShown == [draft |-> NoEmail, file |-> ""]

Notice(kind, idx, msg) == [kind |-> kind, idx |-> idx, msg |-> msg]

-----------------------------------------------------------------------------
(* df.sort_values('score', ascending=False) *)

\* comparing a number with a string raises TypeError
Sortable(cands) ==
    \A a, b \in 1..Len(cands) : cands[a].score.t = cands[b].score.t

Orders(n) ==
    {p \in [1..n -> 1..n] : \A a, b \in 1..n : a # b => p[a] # p[b]}

\* The row orders sort_values may return.  Its default kind is 'quicksort',
\* which is not a stable sort: rows of equal score come in any order.
SortedOrders(cands) ==
    {p \in Orders(Len(cands)) :
        \A a, b \in 1..Len(cands) :
            a < b => cands[p[a]].score.v >= cands[p[b]].score.v}

\* names offered by st.selectbox: df['name'], in list order
Names(cands) == [k \in 1..Len(cands) |-> cands[k].name]

\* next(c for c in candidates if c['name'] == selected)
FirstNamed(cands, name) ==
    cands[CHOOSE k \in 1..Len(cands) :
            /\ cands[k].name = name
            /\ \A m \in 1..(k - 1) : cands[m].name # name]

-----------------------------------------------------------------------------
(* State after the session opens: nothing uploaded, nothing stored *)

Init ==
    /\ jd = "none"
    /\ jd_file = "none"
    /\ resumes = <<>>
    /\ clicked = "none"
    /\ candidates = <<>>
    /\ email = NoEmail
    /\ selected = ""
    /\ pc = "idle"
    /\ i = 0
    /\ reply = NoReply
    /\ notices = <<>>
    /\ view = <<>>
    /\ shown = NoShown
    /\ page = {}
    /\ promptJd = "none"
    /\ exc = "none"

\* what st.session_state holds
session == <<jd, candidates, email>>

\* what the uploaders and the selectbox hold
widgets == <<jd_file, selected>>

\* what a run draws and its local variables
drawn == <<resumes, i, reply, notices, view, shown, page, promptJd, exc>>

-----------------------------------------------------------------------------
(* User interactions.  Each one changes a widget and starts a run of the   *)
(* script on an empty page.                                                *)

StartRun(button) ==
    /\ pc = "idle"
    /\ pc' = "jd"
    /\ clicked' = button
    /\ resumes' = <<>>
    /\ i' = 0
    /\ reply' = NoReply
    /\ notices' = <<>>
    /\ view' = <<>>
    /\ shown' = NoShown
    /\ page' = {}
    /\ promptJd' = "none"
    /\ exc' = "none"
    /\ UNCHANGED session

\* the JD uploader is drawn by every run (line 67)
UploadJD ==
    /\ \E f \in JdFiles \cup {"none"} :
         /\ f # jd_file
         /\ jd_file' = f
    /\ StartRun("none")
    /\ UNCHANGED selected

\* resumes are uploaded and "Analyze Resumes" is clicked; the button exists
\* once the uploader holds a file (line 80)
ClickAnalyze ==
    /\ "resumes" \in page
    /\ StartRun("analyze")
    /\ UNCHANGED widgets

\* another name of the list is chosen in the selectbox
SelectCandidate ==
    /\ "select" \in page
    /\ \E k \in 1..Len(candidates) :
         /\ candidates[k].name # selected
         /\ selected' = candidates[k].name
    /\ StartRun("none")
    /\ UNCHANGED jd_file

ClickGenerateEmail ==
    /\ "email" \in page
    /\ StartRun("email")
    /\ UNCHANGED widgets

-----------------------------------------------------------------------------
(* Step 1, lines 67-73: the job description *)

\* an exception leaves the script: the run is over
Raise(e) ==
    /\ exc' = e
    /\ pc' = "idle"

\* `st.session_state.jd = jd_text` without the membership test
StoreAlways(stored, text) == text

\* `if 'jd' not in st.session_state: st.session_state.jd = jd_text`
StoreOnce(stored, text) == IF stored = "none" THEN text ELSE stored

JdNoFile ==
    /\ pc = "jd"
    /\ jd_file = "none"
    /\ pc' = "resumes"
    /\ UNCHANGED <<session, widgets, drawn, clicked>>

\* extract_text raises on a document the parsing library cannot read
JdExtractFails ==
    /\ pc = "jd"
    /\ jd_file # "none"
    /\ Raise("UnsupportedFormat")
    /\ UNCHANGED <<session, widgets, clicked, resumes, i, reply, notices, view,
                   shown, page, promptJd>>

JdParsed ==
    /\ pc = "jd"
    /\ jd_file # "none"
    /\ jd' = StoreOnce(jd, jd_file)
    /\ pc' = "resumes"
    /\ UNCHANGED <<candidates, email, widgets, drawn, clicked>>

-----------------------------------------------------------------------------
(* Step 2, lines 76-100: resume upload and the analysis loop *)

ResumesHidden ==
    /\ pc = "resumes"
    /\ jd = "none"
    /\ pc' = "dashboard"
    /\ UNCHANGED <<session, widgets, drawn, clicked>>

\* the uploader is drawn; no click on "Analyze Resumes" started this run
ResumesShown ==
    /\ pc = "resumes"
    /\ jd # "none"
    /\ clicked # "analyze"
    /\ page' = page \cup {"resumes"}
    /\ pc' = "dashboard"
    /\ UNCHANGED <<session, widgets, clicked, resumes, i, reply, notices, view,
                   shown, promptJd, exc>>

\* lines 80-82: the click on a non-empty upload empties the candidate list
StartBatch ==
    /\ pc = "resumes"
    /\ jd # "none"
    /\ clicked = "analyze"
    /\ \E n \in 1..MaxResumes :
         \E files \in [1..n -> ResumeFiles] : resumes' = files
    /\ candidates' = <<>>
    /\ page' = page \cup {"resumes"}
    /\ i' = 0
    /\ pc' = "loop"
    /\ UNCHANGED <<jd, email, widgets, clicked, reply, notices, view, shown,
                   promptJd, exc>>

\* line 84 is outside every try block
LoopExtractFails ==
    /\ pc = "loop"
    /\ i < Len(resumes)
    /\ Raise("UnsupportedFormat")
    /\ UNCHANGED <<session, widgets, clicked, resumes, i, reply, notices, view,
                   shown, page, promptJd>>

\* one iteration of lines 84-100 for resume number i + 1
LoopAnalyze ==
    /\ pc = "loop"
    /\ i < Len(resumes)
    /\ \E resp \in Replies \cup {ServiceError} :
         LET k        == i + 1
             a        == analyze_resume(resp)
             failed   == IF a.error = "none" THEN <<>>
                         ELSE <<Notice("error", k, a.error)>>
             verdict  == IF IsValidAnalysis(a.result)
                         THEN Notice("success", k, "analyzed")
                         ELSE Notice("warning", k, "Invalid response")
         IN  /\ reply' = resp
             /\ promptJd' = jd
             /\ candidates' =
                  IF IsValidAnalysis(a.result)
                  THEN Append(candidates, candidate_data(resumes[k], a.result))
                  ELSE candidates
             /\ notices' = Append(notices \o failed, verdict)
             /\ i' = k
    /\ UNCHANGED <<jd, email, widgets, clicked, resumes, pc, view, shown, page,
                   exc>>

\* the loop is left, and its response with it
LoopDone ==
    /\ pc = "loop"
    /\ i = Len(resumes)
    /\ reply' = NoReply
    /\ pc' = "dashboard"
    /\ UNCHANGED <<session, widgets, clicked, resumes, i, notices, view, shown,
                   page, promptJd, exc>>

-----------------------------------------------------------------------------
(* Step 3, lines 103-140: the dashboard *)

DashboardHidden ==
    /\ pc = "dashboard"
    /\ candidates = <<>>
    /\ pc' = "export"
    /\ UNCHANGED <<session, widgets, drawn, clicked>>

\* only KeyError is caught around sort_values (line 120)
DashboardSortFails ==
    /\ pc = "dashboard"
    /\ candidates # <<>>
    /\ ~Sortable(candidates)
    /\ Raise("TypeError")
    /\ UNCHANGED <<session, widgets, clicked, resumes, i, reply, notices, view,
                   shown, page, promptJd>>

\* st.selectbox(..., df['name']): the name chosen earlier while the list
\* still offers it, the first name of the list otherwise
Choice(names) ==
    IF \E k \in 1..Len(names) : names[k] = selected THEN selected ELSE names[1]

\* lines 106-132 up to the first join that fails
DashboardJoinFails ==
    /\ pc = "dashboard"
    /\ candidates # <<>>
    /\ Sortable(candidates)
    /\ LET names     == Names(candidates)
           candidate == FirstNamed(candidates, Choice(names))
       IN  /\ ~(JoinOk(candidate.matches) /\ JoinOk(candidate.gaps))
           /\ \E order \in SortedOrders(candidates) : view' = order
           /\ selected' = Choice(names)
           /\ page' = page \cup {"select"}
           /\ Raise("TypeError")
    /\ UNCHANGED <<session, jd_file, resumes, clicked, i, reply, notices, shown,
                   promptJd>>

\* lines 106-140 in a run that the email button did not start
DashboardShown ==
    /\ pc = "dashboard"
    /\ candidates # <<>>
    /\ Sortable(candidates)
    /\ clicked # "email"
    /\ LET names     == Names(candidates)
           candidate == FirstNamed(candidates, Choice(names))
       IN  /\ JoinOk(candidate.matches) /\ JoinOk(candidate.gaps)
           /\ \E order \in SortedOrders(candidates) : view' = order
           /\ selected' = Choice(names)
           /\ page' = page \cup {"select", "email"}
           /\ shown' = IF email # NoEmail
                       THEN [draft |-> email, file |-> selected']
                       ELSE NoShown
    /\ pc' = "export"
    /\ UNCHANGED <<session, jd_file, resumes, clicked, i, reply, notices,
                   promptJd, exc>>

\* line 137, the model answering
DashboardEmail ==
    /\ pc = "dashboard"
    /\ candidates # <<>>
    /\ Sortable(candidates)
    /\ clicked = "email"
    /\ LET names     == Names(candidates)
           candidate == FirstNamed(candidates, Choice(names))
       IN  /\ JoinOk(candidate.matches) /\ JoinOk(candidate.gaps)
           /\ \E order \in SortedOrders(candidates) : view' = order
           /\ selected' = Choice(names)
           /\ page' = page \cup {"select", "email"}
           /\ promptJd' = jd
           /\ email' = generate_email(candidate, jd)
           /\ shown' = [draft |-> email', file |-> selected']
    /\ pc' = "export"
    /\ UNCHANGED <<jd, candidates, jd_file, resumes, clicked, i, reply, notices,
                   exc>>

\* line 137, generate_content raising: generate_email has no try block
DashboardEmailFails ==
    /\ pc = "dashboard"
    /\ candidates # <<>>
    /\ Sortable(candidates)
    /\ clicked = "email"
    /\ LET names     == Names(candidates)
           candidate == FirstNamed(candidates, Choice(names))
       IN  /\ JoinOk(candidate.matches) /\ JoinOk(candidate.gaps)
           /\ \E order \in SortedOrders(candidates) : view' = order
           /\ selected' = Choice(names)
           /\ page' = page \cup {"select", "email"}
           /\ promptJd' = jd
    /\ Raise("ServiceError")
    /\ UNCHANGED <<session, jd_file, resumes, clicked, i, reply, notices, shown>>

-----------------------------------------------------------------------------
(* Step 4, lines 143-163: export *)

\* The run ends normally; a selectbox that was not drawn loses its state.
ExportHidden ==
    /\ pc = "export"
    /\ candidates = <<>>
    /\ selected' = ""
    /\ pc' = "idle"
    /\ UNCHANGED <<session, jd_file, drawn, clicked>>

\* line 147: DataFrame.to_excel is called without its required excel_writer
\* argument, which is a TypeError
ExportFails ==
    /\ pc = "export"
    /\ candidates # <<>>
    /\ Raise("TypeError")
    /\ UNCHANGED <<session, widgets, clicked, resumes, i, reply, notices, view,
                   shown, page, promptJd>>

-----------------------------------------------------------------------------

Next ==
    \/ UploadJD
    \/ ClickAnalyze
    \/ SelectCandidate
    \/ ClickGenerateEmail
    \/ JdNoFile
    \/ JdExtractFails
    \/ JdParsed
    \/ ResumesHidden
    \/ ResumesShown
    \/ StartBatch
    \/ LoopExtractFails
    \/ LoopAnalyze
    \/ LoopDone
    \/ DashboardHidden
    \/ DashboardSortFails
    \/ DashboardJoinFails
    \/ DashboardShown
    \/ DashboardEmail
    \/ DashboardEmailFails
    \/ ExportHidden
    \/ ExportFails

Spec == Init /\ [][Next]_vars

-----------------------------------------------------------------------------
(* Vocabulary of the properties *)

\* one iteration of the analysis loop has just run
Iterated == pc = "loop" /\ i' = i + 1

\* the run that analysed an upload is over
BatchOver == pc = "idle" /\ resumes # <<>>

HasNotice(kind, k) ==
    \E n \in 1..Len(notices) : notices[n].kind = kind /\ notices[n].idx = k

\* the scoring call for resume k failed with a ServiceError
ServiceFailed(k) ==
    \E n \in 1..Len(notices) :
        notices[n] = Notice("error", k, "ServiceError")

\* resume k was reported as analysed
Succeeded(k) == HasNotice("success", k)

ErrorNotices(k) ==
    Cardinality({n \in 1..Len(notices) :
                    notices[n].kind = "error" /\ notices[n].idx = k})

\* names of the resumes reported as analysed, in upload order
SucceededNames ==
    LET idx == SelectSeq([k \in 1..Len(resumes) |-> k], Succeeded)
    IN  [n \in 1..Len(idx) |-> Stem(resumes[idx[n]])]

\* the reply, fence markers stripped, is strictly valid JSON
CleanedIsJson(r) == r.syn \in {"json", "jsonlit"}

\* valid JSON of the shape {score, matches, gaps, summary}
HasShape(r) ==
    /\ CleanedIsJson(r)
    /\ r.top = "obj"
    /\ r.score.t = "num"
    /\ r.matches.t = "list" /\ r.gaps.t = "list" /\ r.summary.t = "list"

\* the top-level value is an array, a number, a string or a boolean
NonObject(r) == r.top \in {"arr", "num", "str", "bool"}

LastNotice == notices[Len(notices)]

\* a sequence, '' counting as the empty one
IsSequence(x) == x.t = "list" \/ x = Str(0)

\* score descending, rows of equal score in list order
StableOrder(cands) ==
    CHOOSE p \in SortedOrders(cands) :
        \A a, b \in 1..Len(cands) :
            (a < b /\ cands[p[a]].score.v = cands[p[b]].score.v) => p[a] < p[b]

-----------------------------------------------------------------------------
(* Properties *)

\* C1: when a batch in which the scoring call of some resume k failed with a
\* ServiceError is over, the loop went through every resume, the candidate
\* list holds one record per analysed resume in upload order and none for k,
\* one error notice was drawn for k, and no exception left the script.
C1_FailureIsolation ==
    (BatchOver /\ \E k \in 1..Len(resumes) : ServiceFailed(k)) =>
        /\ i = Len(resumes)
        /\ Names(candidates) = SucceededNames
        /\ \A k \in 1..Len(resumes) :
               ServiceFailed(k) => ~Succeeded(k) /\ ErrorNotices(k) = 1
        /\ exc = "none"

\* C2: no UnsupportedFormat, ServiceError or MalformedReply leaves the
\* script, and a run that analyses an upload goes through all its resumes.
C2_NoErrorEndsRun ==
    /\ exc \notin {"UnsupportedFormat", "ServiceError", "MalformedReply"}
    /\ BatchOver => i = Len(resumes)

\* C3: every stored score is an integer between 0 and 100.
C3_ScoreInRange ==
    \A k \in 1..Len(candidates) :
        /\ candidates[k].score.t = "num"
        /\ candidates[k].score.v \in 0..100

\* C4: an iteration whose reply is not strictly valid JSON appends no record
\* and changes nothing of the session but the notices on the page.
C4_StrictJsonOnly ==
    [][(Iterated /\ reply' \in Replies /\ ~CleanedIsJson(reply')) =>
          /\ candidates' = candidates
          /\ jd' = jd /\ email' = email
          /\ Len(notices') > Len(notices)]_vars

\* C5: an iteration whose reply is wrapped in fence markers appends a record
\* exactly if the fenced content is valid JSON of the expected shape.
C5_FencedReply ==
    [][(Iterated /\ reply' \in Replies /\ reply'.fence) =>
          (Len(candidates') = Len(candidates) + 1 <=> HasShape(reply'))]_vars

\* C6: every stored record has a score, and sequences as matches, gaps and
\* summary.
C6_FieldDefaults ==
    \A k \in 1..Len(candidates) :
        /\ candidates[k].score # Absent
        /\ IsSequence(candidates[k].matches)
        /\ IsSequence(candidates[k].gaps)
        /\ IsSequence(candidates[k].summary)

\* C7: the table is drawn in score-descending order with rows of equal score
\* in upload order, and drawing it leaves the candidate list as it was.
C7_StableRanking ==
    [][view' # <<>> =>
          /\ view' = StableOrder(candidates')
          /\ pc = "dashboard" => candidates' = candidates]_vars

\* C8: an iteration whose reply is an array, a number, a string or a boolean
\* appends no record, leaves the candidate list as it was and draws a
\* warning for that resume.
C8_NonObjectRejected ==
    [][(Iterated /\ NonObject(reply')) =>
          /\ candidates' = candidates
          /\ notices' # <<>>
          /\ notices'[Len(notices')] = Notice("warning", i', "Invalid response")
      ]_vars

\* a non-object reply was just rejected while the list held a record
C8_Witness ==
    /\ pc = "loop"
    /\ NonObject(reply)
    /\ candidates # <<>>
    /\ LastNotice = Notice("warning", i, "Invalid response")

C10_DraftMatchesSelection ==
    shown # NoShown =>
        shown.draft = generate_email(FirstNamed(candidates, shown.file), jd)

====
